---- MODULE Spec2Model ----
(***************************************************************************)
(* A model of prompt.c, the shell prompt renderer of power-ps1.            *)
(*                                                                         *)
(* A C string is a sequence of symbols.  A symbol is one byte, or a        *)
(* literal that the program only copies or compares whole ("true",         *)
(* "refs/heads/", "|REBASE", ...).  Every text the program trims or        *)
(* parses byte by byte (file contents, command output, counts) is made     *)
(* of one-byte symbols.  A C pointer is a record: NULL, or a string.       *)
(*                                                                         *)
(* Three specifications share the module:                                  *)
(*   Spec     git_section, the repository state resolver, step by step;    *)
(*   SpecIO   readp, readf and the upstream-count parse, as functions;     *)
(*   SpecBuf  the global output buffer under append/appendraw/section.     *)
(***************************************************************************)
EXTENDS Integers, Sequences, FiniteSets, TLC

VARIABLES
  \* ---- git_section (Spec) ----
  pc,        \* position in git_section
  markers,   \* the operation markers present in the metadata directory
  fs,        \* what the filesystem answered, by probed path
  launched,  \* the subprocesses launched so far, in order
  rpbuf,     \* output captured from git rev-parse
  status,    \* exit status of git rev-parse as readp returned it
  git, inside, bare, intree, ssha,   \* the fields split from rpbuf
  b, r, c, w, i, s, p, step, total, detached,  \* locals of git_section
  label,     \* b as it was before the container override (lines 306-311)
  segment,   \* the strings git_section appended, NoSegment if none
  \* ---- readp / readf (SpecIO) ----
  call,      \* the last call made: function and arguments
  ret,       \* what it returned
  \* ---- output buffer (SpecBuf) ----
  current,   \* current - prompt
  remaining, \* remaining
  lastbg     \* lastbg

gitVars == <<pc, markers, fs, launched, rpbuf, status, git, inside, bare, intree,
             ssha, b, r, c, w, i, s, p, step, total, detached, label, segment>>
ioVars  == <<call, ret>>
bufVars == <<current, remaining, lastbg>>
vars    == <<gitVars, ioVars, bufVars>>

----------------------------------------------------------------------------
(* Bounds of the model *)

\* longest file content / command output drawn in SpecIO
MaxLen == 3
\* largest buffer size passed to readp/readf in SpecIO
MaxSize == 4
\* largest behind/ahead count drawn for the upstream probe
MaxCount == 11
\* how far past the end of prompt[] the buffer model follows the writes
MaxOverrun == 4

(* Program constants *)

\* static char prompt[4096]
PromptSize == 4096
\* char rpbuf[256], tmp1..tmp4[256], tmp[256]
BufSize == 256

----------------------------------------------------------------------------
(* C strings and pointers *)

NULL == [null |-> TRUE, str |-> <<>>]
Ptr(str) == [null |-> FALSE, str |-> str]

NL  == "\n"
TAB == "\t"

Min(x, y) == IF x < y THEN x ELSE y

Prefix(str, n) == SubSeq(str, 1, Min(n, Len(str)))
Drop(str, n) == SubSeq(str, n + 1, Len(str))
Front(str) == SubSeq(str, 1, Len(str) - 1)

\* strncmp(str, pre, strlen(pre)) == 0
StartsWith(str, pre) == Len(str) >= Len(pre) /\ SubSeq(str, 1, Len(pre)) = pre

EndsWith(str, suf) ==
  Len(str) >= Len(suf) /\ SubSeq(str, Len(str) - Len(suf) + 1, Len(str)) = suf

\* strcatv(dst, a1, a2, ..., NULL): the arguments are copied in order up to
\* the first NULL pointer, which ends the argument list.
RECURSIVE strcatv(_)
strcatv(args) ==
  IF args = <<>> \/ Head(args).null THEN <<>>
  ELSE Head(args).str \o strcatv(Tail(args))

\* split(&next, sep): the token up to the first sep (or the end), and the rest
\* after that separator.
RECURSIVE TokenLen(_, _)
TokenLen(buf, sep) ==
  IF buf = <<>> \/ Head(buf) = sep THEN 0 ELSE 1 + TokenLen(Tail(buf), sep)

split(buf, sep) ==
  LET n == TokenLen(buf, sep)
  IN [tok |-> SubSeq(buf, 1, n), next |-> Drop(buf, n + 1)]

----------------------------------------------------------------------------
(* readp and readf *)

\* wait(2) status words: a normal exit with code e, a death by signal sig
Exited(e) == e * 256
Signaled(sig) == sig
WIFEXITED(wstatus) == wstatus % 128 = 0
WEXITSTATUS(wstatus) == (wstatus \div 256) % 256

Launches == {"pipe_failed", "fork_failed", "exec_failed", "ran"}

\* readp(cmd, single, buf, size).  launch says how far the spawn got; out and
\* wstatus are the child's output and wait status when it ran.
readp(launch, out, wstatus, single, size) ==
  IF launch \in {"pipe_failed", "fork_failed"}
  THEN \* the if at line 102 is skipped: wstatus is still 0, buf is empty
       [status |-> IF WIFEXITED(0) THEN WEXITSTATUS(0) ELSE -1, text |-> <<>>]
  ELSE LET ws  == IF launch = "exec_failed" THEN Exited(1) ELSE wstatus
           got == IF launch = "exec_failed" THEN <<>> ELSE Prefix(out, size - 1)
       IN [status |-> IF WIFEXITED(ws) THEN WEXITSTATUS(ws) ELSE -1,
           text |-> IF single /\ got # <<>> THEN Front(got) ELSE got]

\* readf(path, buf, size).  file is the content of the file at path, or
\* NoFile when open fails.
NoFile == [exists |-> FALSE, content |-> <<>>]
File(content) == [exists |-> TRUE, content |-> content]

readf(file, size) ==
  IF file.exists
  THEN LET got == Prefix(file.content, size - 1)
       IN IF got # <<>> THEN Front(got) ELSE got
  ELSE <<>>


----------------------------------------------------------------------------
(* git_section: inputs *)

TRUE_  == <<"true">>
FALSE_ == <<"false">>
GitDir == <<".git">>
Sha    == <<"a", "b", "c">>
RefPrefix   == <<"ref: ">>
HeadsPrefix == <<"refs/heads/">>
Branch == <<"m">>

Flag(x) == IF x THEN TRUE_ ELSE FALSE_

\* the operation markers of the metadata directory, in the order lines
\* 246-270 look for them
Markers == <<"rebase-merge", "rebase-apply", "MERGE_HEAD", "CHERRY_PICK_HEAD",
             "REVERT_HEAD", "BISECT_LOG">>
MarkerSet == {Markers[k] : k \in 1..Len(Markers)}

\* what git rev-parse prints inside a repository: one line per field asked
\* for at line 20; the short hash only when HEAD resolves
RevParseText(in, ba, it, withSha) ==
  GitDir \o <<NL>> \o Flag(in) \o <<NL>> \o Flag(ba) \o <<NL>> \o Flag(it) \o <<NL>>
    \o (IF withSha THEN Sha \o <<NL>> ELSE <<>>)

\* outcomes of running git rev-parse: spawn failures, not a repository,
\* a repository without commits, a repository with commits
RevParseOutcomes ==
  {[launch |-> l, out |-> <<>>, wstatus |-> 0] :
      l \in {"pipe_failed", "fork_failed", "exec_failed"}}
  \cup {[launch |-> "ran", out |-> <<>>, wstatus |-> ws] :
      ws \in {Exited(0), Exited(128), Signaled(9)}}
  \cup {[launch |-> "ran", out |-> RevParseText(in, ba, it, FALSE), wstatus |-> Exited(128)] :
      in \in BOOLEAN, ba \in BOOLEAN, it \in BOOLEAN}
  \cup {[launch |-> "ran", out |-> RevParseText(in, ba, it, TRUE), wstatus |-> Exited(0)] :
      in \in BOOLEAN, ba \in BOOLEAN, it \in BOOLEAN}

\* outcomes of a command whose output the caller ignores
QuietOutcomes ==
  {[launch |-> "fork_failed", out |-> <<>>, wstatus |-> 0],
   [launch |-> "exec_failed", out |-> <<>>, wstatus |-> 0],
   [launch |-> "ran", out |-> <<>>, wstatus |-> Exited(0)],
   [launch |-> "ran", out |-> <<>>, wstatus |-> Exited(1)],
   [launch |-> "ran", out |-> <<>>, wstatus |-> Signaled(9)]}

\* contents of a one-line file of the metadata directory
HeadNameFiles == {NoFile, File(<<>>), File(HeadsPrefix \o Branch \o <<NL>>)}
StepFiles  == {NoFile, File(<<"3", NL>>)}
TotalFiles == {NoFile, File(<<"5", NL>>)}
HeadFiles  == {NoFile, File(RefPrefix \o HeadsPrefix \o Branch \o <<NL>>),
               File(Sha \o <<NL>>)}

\* outcomes of git symbolic-ref HEAD and of git describe
SymbolicRefOutcomes ==
  {[launch |-> "ran", out |-> HeadsPrefix \o Branch \o <<NL>>, wstatus |-> Exited(0)],
   [launch |-> "ran", out |-> <<>>, wstatus |-> Exited(128)],
   [launch |-> "exec_failed", out |-> <<>>, wstatus |-> 0]}
DescribeOutcomes ==
  {[launch |-> "ran", out |-> <<"t", "a", "g", NL>>, wstatus |-> Exited(0)],
   [launch |-> "ran", out |-> <<>>, wstatus |-> Exited(128)],
   [launch |-> "exec_failed", out |-> <<>>, wstatus |-> 0]}

\* decimal digits of a count, as git rev-list --count prints them
Digits == <<"0", "1", "2", "3", "4", "5", "6", "7", "8", "9">>
RECURSIVE Decimal(_)
Decimal(n) ==
  IF n < 10 THEN <<Digits[n + 1]>> ELSE Decimal(n \div 10) \o <<Digits[(n % 10) + 1]>>

\* what git rev-list --count --left-right @{upstream}...HEAD prints
UpstreamText(behind, ahead) == Decimal(behind) \o <<TAB>> \o Decimal(ahead) \o <<NL>>

----------------------------------------------------------------------------
(* git_section: the decisions *)

\* line 235: the body runs only if (*rpbuf != 0)
IsAbsentAlways(buf) == FALSE
IsAbsent(buf) == buf = <<>>

\* lines 238-242: the fields of rpbuf
Fields(buf, st) ==
  LET f1 == split(buf, NL)
      f2 == split(f1.next, NL)
      f3 == split(f2.next, NL)
      f4 == split(f3.next, NL)
      f5 == split(f4.next, NL)
  IN [git |-> f1.tok, inside |-> f2.tok, bare |-> f3.tok, intree |-> f4.tok,
      ssha |-> IF st = 0 THEN Ptr(f5.tok) ELSE NULL]

\* lines 262-270: the tag of the first marker file present, NULL if none
FileMarkerTag(ms) ==
  IF "MERGE_HEAD" \in ms THEN Ptr(<<"|MERGING">>)
  ELSE IF "CHERRY_PICK_HEAD" \in ms THEN Ptr(<<"|CHERRY-PICKING">>)
  ELSE IF "REVERT_HEAD" \in ms THEN Ptr(<<"|REVERTING">>)
  ELSE IF "BISECT_LOG" \in ms THEN Ptr(<<"|BISECTING">>)
  ELSE NULL

\* the marker files lines 262-268 stat before one is found
FileMarkersProbed(ms) ==
  LET files == SubSeq(Markers, 3, Len(Markers))
      hit == {k \in 1..Len(files) : files[k] \in ms}
      last == IF hit = {} THEN Len(files) ELSE CHOOSE k \in hit : \A j \in hit : k <= j
  IN {files[k] : k \in 1..last}

\* lines 298-300: a leading refs/heads/ is skipped
StripHeads(ptr) ==
  IF ~ptr.null /\ StartsWith(ptr.str, HeadsPrefix)
  THEN Ptr(Drop(ptr.str, Len(HeadsPrefix))) ELSE ptr

\* lines 302-304: the progress suffix
WithProgress(tag, st, tot) ==
  IF ~st.null /\ ~tot.null
  THEN Ptr(strcatv(<<tag, Ptr(<<" ">>), st, Ptr(<<"/">>), tot, NULL>>))
  ELSE tag

\* lines 306-312: which branch of the container test is taken
ContainerBareProbes(in, ba, it) ==
  IF in = TRUE_ /\ ba # TRUE_ THEN "gitdir"
  ELSE IF it = TRUE_ THEN "worktree"
  ELSE IF in = TRUE_ THEN "bare"
  ELSE "none"
Container(in, ba, it) ==
  IF in = TRUE_ THEN (IF ba = TRUE_ THEN "bare" ELSE "gitdir")
  ELSE IF it = TRUE_ THEN "worktree"
  ELSE "none"

\* lines 325-336: the upstream mark from what readp returned
UpstreamMarkSwapped(res) ==
  IF res.status = 0
  THEN IF res.text = <<"0", TAB, "0">> THEN Ptr(<<>>)
       ELSE LET rmt == split(res.text, TAB)
                loc == split(rmt.next, TAB)
            IN Ptr(IF loc.tok = <<"0">> THEN <<"u2191">>
                   ELSE IF rmt.tok = <<"0">> THEN <<"u2193">>
                   ELSE <<"u2195">>)
  ELSE NULL
UpstreamMark(res) ==
  IF res.status = 0
  THEN IF res.text = <<"0", TAB, "0">> THEN Ptr(<<>>)
       ELSE LET rmt == split(res.text, TAB)
                loc == split(rmt.next, TAB)
            IN Ptr(IF rmt.tok = <<"0">> THEN <<"u2191">>
                   ELSE IF loc.tok = <<"0">> THEN <<"u2193">>
                   ELSE <<"u2195">>)
  ELSE NULL

----------------------------------------------------------------------------
(* git_section: the steps *)

NoSegment == [emitted |-> FALSE, fg |-> "", bg |-> "", text |-> <<>>]

GitIdle ==
  /\ fs = <<>> /\ launched = <<>> /\ rpbuf = <<>> /\ status = 0
  /\ git = <<>> /\ inside = <<>> /\ bare = <<>> /\ intree = <<>> /\ ssha = NULL
  /\ b = NULL /\ r = NULL /\ c = NULL /\ w = NULL /\ i = NULL /\ s = NULL
  /\ p = NULL /\ step = NULL /\ total = NULL /\ detached = FALSE
  /\ label = NULL /\ segment = NoSegment

IOIdle == call = [fn |-> "none"] /\ ret = [fn |-> "none"]

BufIdle == current = 0 /\ remaining = PromptSize /\ lastbg = NULL

\* the state on entry to git_section, in a metadata directory holding any
\* set of operation markers
Init ==
  /\ pc = "locate"
  /\ markers \in SUBSET MarkerSet
  /\ GitIdle /\ IOIdle /\ BufIdle

\* lines 233-242: run git rev-parse and split its output
Locate ==
  /\ pc = "locate"
  /\ \E o \in RevParseOutcomes :
       LET res == readp(o.launch, o.out, o.wstatus, FALSE, BufSize)
           f == Fields(res.text, res.status)
       IN /\ rpbuf' = res.text
          /\ status' = res.status
          /\ launched' = Append(launched, "rev_parse")
          /\ IF IsAbsent(res.text)
             THEN /\ pc' = "done"
                  /\ UNCHANGED <<git, inside, bare, intree, ssha>>
             ELSE /\ pc' = "operation"
                  /\ git' = f.git /\ inside' = f.inside /\ bare' = f.bare
                  /\ intree' = f.intree /\ ssha' = f.ssha
  /\ UNCHANGED <<markers, fs, b, r, c, w, i, s, p, step, total, detached, label,
                 segment, ioVars, bufVars>>

\* lines 246-249: a rebase-merge directory
OperationRebaseMerge ==
  /\ pc = "operation"
  /\ "rebase-merge" \in markers
  /\ \E hn \in HeadNameFiles, f1 \in StepFiles, f2 \in TotalFiles :
       /\ fs' = ("rebase-merge" :> TRUE) @@ ("rebase-merge/head-name" :> hn)
                  @@ ("rebase-merge/msgnum" :> f1) @@ ("rebase-merge/end" :> f2)
       /\ b' = Ptr(readf(hn, BufSize))
       /\ step' = Ptr(readf(f1, BufSize))
       /\ total' = Ptr(readf(f2, BufSize))
  /\ pc' = "strip"
  /\ UNCHANGED <<markers, launched, rpbuf, status, git, inside, bare, intree, ssha,
                 r, c, w, i, s, p, detached, label, segment, ioVars, bufVars>>

\* lines 251-261: a rebase-apply directory
OperationRebaseApply ==
  /\ pc = "operation"
  /\ "rebase-merge" \notin markers
  /\ "rebase-apply" \in markers
  /\ \E f1 \in StepFiles, f2 \in TotalFiles, rebasing \in BOOLEAN, applying \in BOOLEAN,
        hn \in HeadNameFiles :
       LET base == ("rebase-merge" :> FALSE) @@ ("rebase-apply" :> TRUE)
                     @@ ("rebase-apply/next" :> f1) @@ ("rebase-apply/last" :> f2)
                     @@ ("rebase-apply/rebasing" :> rebasing)
       IN /\ step' = Ptr(readf(f1, BufSize))
          /\ total' = Ptr(readf(f2, BufSize))
          /\ IF rebasing
             THEN /\ applying = FALSE
                  /\ fs' = base @@ ("rebase-apply/head-name" :> hn)
                  /\ b' = Ptr(readf(hn, BufSize))
                  /\ r' = Ptr(<<"|REBASE">>)
             ELSE /\ hn = NoFile
                  /\ fs' = base @@ ("rebase-apply/applying" :> applying)
                  /\ b' = b
                  /\ r' = IF applying THEN Ptr(<<"|AM">>) ELSE Ptr(<<"|AM/REBASE">>)
          /\ pc' = IF b'.null THEN "head" ELSE "strip"
  /\ UNCHANGED <<markers, launched, rpbuf, status, git, inside, bare, intree, ssha,
                 c, w, i, s, p, detached, label, segment, ioVars, bufVars>>

\* lines 262-270: the marker files, first present first
OperationMarkerFile ==
  /\ pc = "operation"
  /\ "rebase-merge" \notin markers
  /\ "rebase-apply" \notin markers
  /\ fs' = ("rebase-merge" :> FALSE) @@ ("rebase-apply" :> FALSE)
             @@ [m \in FileMarkersProbed(markers) |-> m \in markers]
  /\ r' = FileMarkerTag(markers)
  /\ pc' = "head"
  /\ UNCHANGED <<markers, launched, rpbuf, status, git, inside, bare, intree, ssha,
                 b, c, w, i, s, p, step, total, detached, label, segment, ioVars, bufVars>>

\* lines 273-277: HEAD is a symbolic link
HeadSymlink ==
  /\ pc = "head"
  /\ fs' = fs @@ ("HEAD" :> "symlink")
  /\ \E o \in SymbolicRefOutcomes :
       LET res == readp(o.launch, o.out, o.wstatus, TRUE, BufSize)
       IN b' = IF res.status = 0 THEN Ptr(res.text) ELSE b
  /\ launched' = Append(launched, "symbolic_ref")
  /\ pc' = "strip"
  /\ UNCHANGED <<markers, rpbuf, status, git, inside, bare, intree, ssha,
                 r, c, w, i, s, p, step, total, detached, label, segment, ioVars, bufVars>>

\* lines 279-282: HEAD is a file holding a symbolic ref
HeadRef ==
  /\ pc = "head"
  /\ \E f \in HeadFiles :
       LET head == readf(f, BufSize)
       IN /\ StartsWith(head, RefPrefix)
          /\ fs' = fs @@ ("HEAD" :> f)
          /\ b' = Ptr(Drop(head, Len(RefPrefix)))
  /\ pc' = "strip"
  /\ UNCHANGED <<markers, launched, rpbuf, status, git, inside, bare, intree, ssha,
                 r, c, w, i, s, p, step, total, detached, label, segment, ioVars, bufVars>>

\* lines 283-293: HEAD is detached
HeadDetached ==
  /\ pc = "head"
  /\ \E f \in HeadFiles, o \in DescribeOutcomes :
       LET head == readf(f, BufSize)
           res == readp(o.launch, o.out, o.wstatus, TRUE, BufSize - 2)
           desc == IF res.status # 0
                   THEN strcatv(<<ssha, Ptr(<<"...">>), NULL>>)
                   ELSE res.text
       IN /\ ~StartsWith(head, RefPrefix)
          /\ fs' = fs @@ ("HEAD" :> f)
          /\ b' = Ptr(<<"(">> \o desc \o <<")">>)
  /\ detached' = TRUE
  /\ launched' = Append(launched, "describe")
  /\ pc' = "strip"
  /\ UNCHANGED <<markers, rpbuf, status, git, inside, bare, intree, ssha,
                 r, c, w, i, s, p, step, total, label, segment, ioVars, bufVars>>

\* lines 298-312: strip refs/heads/, add the progress, apply the container
\* override and decide whether the work-tree probes run
Override ==
  /\ pc = "strip"
  /\ label' = StripHeads(b)
  /\ r' = WithProgress(r, step, total)
  /\ LET branch == Container(inside, bare, intree)
     IN /\ c' = IF branch = "bare" THEN Ptr(<<"BARE:">>) ELSE c
        /\ b' = IF branch = "gitdir" THEN Ptr(<<"GIT_DIR!">>) ELSE StripHeads(b)
        /\ pc' = IF branch = "worktree" THEN "diff" ELSE "render"
  /\ UNCHANGED <<markers, fs, launched, rpbuf, status, git, inside, bare, intree, ssha,
                 w, i, s, p, step, total, detached, segment, ioVars, bufVars>>

\* lines 314-316: git diff
ProbeDiff ==
  /\ pc = "diff"
  /\ \E o \in QuietOutcomes :
       LET res == readp(o.launch, o.out, o.wstatus, FALSE, BufSize)
       IN w' = IF res.status # 0 THEN Ptr(<<"*">>) ELSE w
  /\ launched' = Append(launched, "diff")
  /\ pc' = "cached"
  /\ UNCHANGED <<markers, fs, rpbuf, status, git, inside, bare, intree, ssha,
                 b, r, c, i, s, p, step, total, detached, label, segment, ioVars, bufVars>>

\* lines 317-321: git diff --cached
ProbeCached ==
  /\ pc = "cached"
  /\ \E o \in QuietOutcomes :
       LET res == readp(o.launch, o.out, o.wstatus, FALSE, BufSize)
       IN i' = IF res.status # 0 THEN Ptr(<<"+">>)
               ELSE IF ssha.null THEN Ptr(<<"#">>) ELSE i
  /\ launched' = Append(launched, "diff_cached")
  /\ pc' = "stash"
  /\ UNCHANGED <<markers, fs, rpbuf, status, git, inside, bare, intree, ssha,
                 b, r, c, w, s, p, step, total, detached, label, segment, ioVars, bufVars>>

\* lines 322-324: git rev-parse --verify refs/stash
ProbeStash ==
  /\ pc = "stash"
  /\ \E o \in QuietOutcomes :
       LET res == readp(o.launch, o.out, o.wstatus, FALSE, BufSize)
       IN s' = IF res.status = 0 THEN Ptr(<<"$">>) ELSE s
  /\ launched' = Append(launched, "check_stash")
  /\ pc' = "upstream"
  /\ UNCHANGED <<markers, fs, rpbuf, status, git, inside, bare, intree, ssha,
                 b, r, c, w, i, p, step, total, detached, label, segment, ioVars, bufVars>>

\* outcomes of git rev-list --count --left-right @{upstream}...HEAD
UpstreamOutcomes ==
  {[launch |-> "ran", out |-> <<>>, wstatus |-> Exited(128)],
   [launch |-> "exec_failed", out |-> <<>>, wstatus |-> 0]}
  \cup {[launch |-> "ran", out |-> UpstreamText(x, y), wstatus |-> Exited(0)] :
          x \in {0, 2, 10}, y \in {0, 3, 10}}

\* lines 325-336: the upstream count
ProbeUpstream ==
  /\ pc = "upstream"
  /\ \E o \in UpstreamOutcomes :
       LET res == readp(o.launch, o.out, o.wstatus, TRUE, BufSize)
       IN p' = UpstreamMark(res)
  /\ launched' = Append(launched, "upstream")
  /\ pc' = "render"
  /\ UNCHANGED <<markers, fs, rpbuf, status, git, inside, bare, intree, ssha,
                 b, r, c, w, i, s, step, total, detached, label, segment, ioVars, bufVars>>

\* the non-NULL pointers of a list, in order: what "if (x) append(x, NULL)"
\* appends
Appended(ptrs) == [k \in 1..Len(SelectSeq(ptrs, LAMBDA x : ~x.null)) |->
                     SelectSeq(ptrs, LAMBDA x : ~x.null)[k].str]

\* lines 339-350: the git segment
Render ==
  /\ pc = "render"
  /\ LET dirty == detached \/ ~w.null \/ ~i.null \/ ~s.null
         sp == IF ~w.null \/ ~i.null \/ ~s.null THEN Ptr(<<" ">>) ELSE NULL
     IN segment' = [emitted |-> TRUE,
                    fg |-> IF dirty THEN "15" ELSE "0",
                    bg |-> IF dirty THEN "125" ELSE "148",
                    text |-> Appended(<<c, b, sp, w, i, s, r, p>>)]
  /\ pc' = "done"
  /\ UNCHANGED <<markers, fs, launched, rpbuf, status, git, inside, bare, intree, ssha,
                 b, r, c, w, i, s, p, step, total, detached, label, ioVars, bufVars>>

Next ==
  \/ Locate
  \/ OperationRebaseMerge
  \/ OperationRebaseApply
  \/ OperationMarkerFile
  \/ HeadSymlink
  \/ HeadRef
  \/ HeadDetached
  \/ Override
  \/ ProbeDiff
  \/ ProbeCached
  \/ ProbeStash
  \/ ProbeUpstream
  \/ Render

Spec == Init /\ [][Next]_vars

----------------------------------------------------------------------------
(* readp, readf and the upstream parse as functions of their inputs: one  *)
(* call per behaviour, its arguments drawn from the bounded sets           *)

\* every text of at most n bytes over a letter and the line separator
RECURSIVE Texts(_)
Texts(n) ==
  IF n = 0 THEN {<<>>}
  ELSE Texts(n - 1) \cup {Append(t, ch) : t \in {x \in Texts(n - 1) : Len(x) = n - 1},
                                           ch \in {"a", NL}}

WaitStatuses == {Exited(0), Exited(1), Exited(128), Exited(255), Signaled(9)}

InitIO ==
  /\ pc = "io"
  /\ markers = {}
  /\ GitIdle /\ IOIdle /\ BufIdle

CallReadp ==
  /\ call.fn = "none"
  /\ \E launch \in Launches, out \in Texts(MaxLen), ws \in WaitStatuses,
        single \in BOOLEAN, size \in 1..MaxSize :
       /\ launch # "ran" => out = <<>> /\ ws = Exited(0)
       /\ call' = [fn |-> "readp", launch |-> launch, out |-> out, wstatus |-> ws,
                   single |-> single, size |-> size]
       /\ ret' = [fn |-> "readp", res |-> readp(launch, out, ws, single, size)]
  /\ UNCHANGED <<gitVars, bufVars>>

CallReadf ==
  /\ call.fn = "none"
  /\ \E file \in {NoFile} \cup {File(t) : t \in Texts(MaxLen)}, size \in 1..MaxSize :
       /\ call' = [fn |-> "readf", file |-> file, size |-> size]
       /\ ret' = [fn |-> "readf", text |-> readf(file, size)]
  /\ UNCHANGED <<gitVars, bufVars>>

\* lines 325-336 on their own: the upstream probe and the mark it gives
CallUpstream ==
  /\ call.fn = "none"
  /\ \E launch \in Launches, ws \in WaitStatuses, behind \in 0..MaxCount,
        ahead \in 0..MaxCount :
       /\ launch # "ran" => ws = Exited(0) /\ behind = 0 /\ ahead = 0
       /\ LET out == IF launch = "ran" /\ ws = Exited(0)
                     THEN UpstreamText(behind, ahead) ELSE <<>>
              res == readp(launch, out, ws, TRUE, BufSize)
          IN /\ call' = [fn |-> "upstream", launch |-> launch, wstatus |-> ws,
                         behind |-> behind, ahead |-> ahead]
             /\ ret' = [fn |-> "upstream", res |-> res, p |-> UpstreamMark(res)]
  /\ UNCHANGED <<gitVars, bufVars>>

NextIO ==
  \/ CallReadp
  \/ CallReadf
  \/ CallUpstream

SpecIO == InitIO /\ [][NextIO]_vars

----------------------------------------------------------------------------
(* The output buffer: prompt, current, remaining, lastbg *)

\* append(src, ..., NULL) on one string: '$' and '\\' are written as two
\* bytes; the loop tests remaining only before the pair
RECURSIVE appendStr(_, _)
appendStr(st, src) ==
  IF st.remaining = 0 \/ src = <<>> THEN st
  ELSE LET ch == Head(src)
           n == IF ch = "$" \/ ch = "\\" THEN 2 ELSE 1
       IN appendStr([current |-> st.current + n, remaining |-> st.remaining - n],
                    Tail(src))

\* appendraw(src, ..., NULL) on one string
RECURSIVE appendrawStr(_, _)
appendrawStr(st, src) ==
  IF st.remaining = 0 \/ src = <<>> THEN st
  ELSE appendrawStr([current |-> st.current + 1, remaining |-> st.remaining - 1],
                    Tail(src))

\* the variadic loops of append and appendraw: every argument in turn
RECURSIVE append(_, _)
append(st, args) ==
  IF args = <<>> THEN st ELSE append(appendStr(st, Head(args)), Tail(args))

RECURSIVE appendraw(_, _)
appendraw(st, args) ==
  IF args = <<>> THEN st ELSE appendraw(appendrawStr(st, Head(args)), Tail(args))

ESC == "\\e"
SetFg == <<"\\", "[", ESC, "[", "3", "8", ";", "5", ";">>
SetBg == <<"m", ESC, "[", "4", "8", ";", "5", ";">>
EndSeq == <<"m", "\\", "]">>
Arrow == <<"xEE", "x82", "xB0", " ">>

\* section(fg, bg): the bytes it passes to appendraw
sectionArgs(last, fg, bg) ==
  IF ~last.null
  THEN << <<" ">>, SetFg, last.str, SetBg, bg, EndSeq, Arrow, SetFg, fg, EndSeq >>
  ELSE << SetFg, fg, SetBg, bg, EndSeq >>

\* the colour pairs the sections of main pass to section()
Colours ==
  {<< <<"2", "5", "3">>, <<"2", "4", "2">> >>,
   << <<"1", "5">>, <<"3", "2">> >>,
   << <<"2", "5", "4">>, <<"1", "2", "7">> >>,
   << <<"1", "6", "0">>, <<"0">> >>,
   << <<"4", "0">>, <<"0">> >>,
   << <<"2", "5", "4">>, <<"1", "7", "2">> >>,
   << <<"0">>, <<"2">> >>,
   << <<"1", "5">>, <<"1", "2", "5">> >>,
   << <<"0">>, <<"1", "4", "8">> >>}

\* strings handed to append and appendraw
Letters == {"a", "$", "\\"}
Strings == {<<x>> : x \in Letters} \cup {<<x, y>> : x \in Letters, y \in Letters}
ArgLists == {<<x>> : x \in Strings} \cup {<<x, y>> : x \in {<<"a">>, <<"$">>}, y \in Strings}

InitBuf ==
  /\ pc = "buf"
  /\ markers = {}
  /\ GitIdle /\ IOIdle /\ BufIdle

Here == [current |-> current, remaining |-> remaining]

\* the model follows the writes up to MaxOverrun bytes past prompt[]
InReach == current < PromptSize + MaxOverrun

CallAppend ==
  /\ InReach
  /\ \E args \in ArgLists :
       LET st == append(Here, args)
       IN current' = st.current /\ remaining' = st.remaining
  /\ UNCHANGED <<lastbg, gitVars, ioVars>>

CallAppendRaw ==
  /\ InReach
  /\ \E args \in ArgLists :
       LET st == appendraw(Here, args)
       IN current' = st.current /\ remaining' = st.remaining
  /\ UNCHANGED <<lastbg, gitVars, ioVars>>

CallSection ==
  /\ InReach
  /\ \E col \in Colours :
       LET st == appendraw(Here, sectionArgs(lastbg, col[1], col[2]))
       IN /\ current' = st.current /\ remaining' = st.remaining
          /\ lastbg' = Ptr(col[2])
  /\ UNCHANGED <<gitVars, ioVars>>

NextBuf ==
  \/ CallAppend
  \/ CallAppendRaw
  \/ CallSection

SpecBuf == InitBuf /\ [][NextBuf]_vars

----------------------------------------------------------------------------
(* Properties *)

\* git_section has returned and rev-parse printed something: the state is
\* not the absent one
Resolved == pc = "done" /\ rpbuf # <<>>

\* the first marker present, in the order of the specification
FirstMarker ==
  LET hit == {k \in 1..Len(Markers) : Markers[k] \in markers}
  IN IF hit = {} THEN "none"
     ELSE Markers[CHOOSE k \in hit : \A j \in hit : k <= j]

\* the work-tree probes launched, in launch order
Probes == SelectSeq(launched, LAMBDA x : x \in {"diff", "diff_cached", "check_stash", "upstream"})
FourProbes == <<"diff", "diff_cached", "check_stash", "upstream">>

\* the progress text " <step>/<total>" of the values read
ProgressText == <<" ">> \o step.str \o <<"/">> \o total.str

\* the operation tag carries a step/total suffix
HasProgress == ~r.null /\ \E k \in 1..Len(r.str) : r.str[k] = "/"

\* the progress files of the rebase directory in use both exist
BothProgressFiles ==
  \/ /\ FirstMarker = "rebase-merge"
     /\ fs["rebase-merge/msgnum"].exists /\ fs["rebase-merge/end"].exists
  \/ /\ FirstMarker = "rebase-apply"
     /\ fs["rebase-apply/next"].exists /\ fs["rebase-apply/last"].exists

\* C1: when git rev-parse captured nothing, git_section is over: rev-parse is
\* the only subprocess launched, nothing was looked up in the filesystem and
\* no segment is emitted, whatever the exit status was.
C1_EmptyProbeIsAbsent ==
  (pc # "locate" /\ rpbuf = <<>>) =>
     /\ pc = "done"
     /\ launched = <<"rev_parse">>
     /\ fs = <<>>
     /\ ~segment.emitted

\* rev-parse ran outside a repository: exit 128, nothing printed
C1_Witness ==
  /\ pc = "done" /\ rpbuf = <<>> /\ status = 128
  /\ launched = <<"rev_parse">> /\ ~segment.emitted

\* C2: the operation reported is the first marker present, in the order
\* rebase-merge, rebase-apply, MERGE_HEAD, CHERRY_PICK_HEAD, REVERT_HEAD,
\* BISECT_LOG; an operation is reported exactly when a marker is present.
C2_OperationByPriority ==
  Resolved =>
     LET tag == IF r.null \/ r.str = <<>> THEN "" ELSE Head(r.str)
     IN /\ FirstMarker = "none" <=> tag = ""
        /\ FirstMarker = "rebase-merge" =>
             tag \notin {"|MERGING", "|CHERRY-PICKING", "|REVERTING", "|BISECTING"}
        /\ FirstMarker = "rebase-apply" => tag \in {"|REBASE", "|AM", "|AM/REBASE"}
        /\ FirstMarker = "MERGE_HEAD" => tag = "|MERGING"
        /\ FirstMarker = "CHERRY_PICK_HEAD" => tag = "|CHERRY-PICKING"
        /\ FirstMarker = "REVERT_HEAD" => tag = "|REVERTING"
        /\ FirstMarker = "BISECT_LOG" => tag = "|BISECTING"

\* C3: a state that is not the absent one has a head label: b is set and is
\* not empty.
C3_HeadLabelSet ==
  Resolved => ~b.null /\ b.str # <<>>

\* C4: for every rebase variant whose step and total files both exist, the
\* operation tag is the operation's tag followed by " <step>/<total>".
C4_ProgressAppended ==
  (Resolved /\ BothProgressFiles) =>
     /\ ~r.null
     /\ EndsWith(r.str, ProgressText)
     /\ Len(r.str) > Len(ProgressText)

\* C5: the operation tag carries a step/total suffix only for a rebase
\* variant whose two progress files both exist.
C5_ProgressOnlyWithBothFiles ==
  (Resolved /\ HasProgress) => BothProgressFiles

\* C6: the upstream probe that ran: a non-zero exit gives no mark (p stays
\* NULL); exit 0 with "behind<TAB>ahead" gives the empty mark when both are
\* zero, the up arrow when only behind is zero, the down arrow when only
\* ahead is zero, the up-down arrow otherwise.
C6_UpstreamMapping ==
  (call.fn = "upstream" /\ call.launch = "ran") =>
     IF call.wstatus # Exited(0) THEN ret.p = NULL
     ELSE /\ (call.behind = 0 /\ call.ahead = 0) => ret.p = Ptr(<<>>)
          /\ (call.behind = 0 /\ call.ahead > 0) => ret.p = Ptr(<<"u2191">>)
          /\ (call.behind > 0 /\ call.ahead = 0) => ret.p = Ptr(<<"u2193">>)
          /\ (call.behind > 0 /\ call.ahead > 0) => ret.p = Ptr(<<"u2195">>)

\* ten commits behind, none ahead
C6_Witness ==
  /\ call.fn = "upstream" /\ call.launch = "ran" /\ call.wstatus = Exited(0)
  /\ call.behind = 10 /\ call.ahead = 0
  /\ ret.p = Ptr(<<"u2193">>)

\* C7, as amended: the four work-tree probes are launched, in that order,
\* exactly when inside-git-dir is not true and inside-work-tree is true; when
\* inside-git-dir is true none is launched, and the label is GIT_DIR! if the
\* repository is not bare, kept and prefixed with BARE: if it is.
C7_ProbesOutsideGitDir ==
  Resolved =>
     /\ IF inside # TRUE_ /\ intree = TRUE_ THEN Probes = FourProbes ELSE Probes = <<>>
     /\ (inside = TRUE_ /\ bare # TRUE_) => b = Ptr(<<"GIT_DIR!">>) /\ Probes = <<>>
     /\ (inside = TRUE_ /\ bare = TRUE_) =>
           c = Ptr(<<"BARE:">>) /\ b = label /\ Probes = <<>>

\* an ordinary work tree: the four probes ran, in order
C7_Witness ==
  /\ Resolved /\ inside = FALSE_ /\ intree = TRUE_
  /\ launched = <<"rev_parse">> \o FourProbes
  /\ c = NULL /\ b = Ptr(Branch)

\* C7, as claimed: the four probes are launched exactly when inside-work-tree
\* is true and the label was not replaced by GIT_DIR!.
C7_ProbesUnlessGitDirMarker ==
  Resolved =>
     /\ IF intree = TRUE_ /\ ~(inside = TRUE_ /\ bare # TRUE_)
        THEN Probes = FourProbes ELSE Probes = <<>>
     /\ (inside = TRUE_ /\ bare # TRUE_) => b = Ptr(<<"GIT_DIR!">>) /\ Probes = <<>>
     /\ (inside = TRUE_ /\ bare = TRUE_) => c = Ptr(<<"BARE:">>) /\ b = label

\* C8: when the command could not be launched, readp returns a status that
\* no exited command can return: not one of 0..255, and so never 0.
C8_LaunchFailureSentinel ==
  (call.fn = "readp" /\ call.launch # "ran") => ret.res.status \notin 0..255

\* C9: readf and readp in single mode return the first size-1 bytes, less at
\* most a trailing line separator: no other byte is ever removed; readf
\* returns the empty string for a file that cannot be opened.
C9_OnlySeparatorTrimmed ==
  /\ call.fn = "readf" =>
       LET kept == Prefix(call.file.content, call.size - 1)
       IN IF ~call.file.exists THEN ret.text = <<>>
          ELSE \/ ret.text = kept
               \/ kept # <<>> /\ kept[Len(kept)] = NL /\ ret.text = Front(kept)
  /\ (call.fn = "readp" /\ call.launch = "ran" /\ call.single) =>
       LET kept == Prefix(call.out, call.size - 1)
       IN \/ ret.res.text = kept
          \/ kept # <<>> /\ kept[Len(kept)] = NL /\ ret.res.text = Front(kept)

\* C10: the output buffer is never written past its end: remaining is never
\* negative, current and remaining add up to the size of prompt, and the
\* length main writes is at most that size.
C10_BufferNeverOverrun ==
  /\ remaining >= 0
  /\ current + remaining = PromptSize
  /\ PromptSize - remaining <= PromptSize

====
